---- MODULE Spec2Model ----
(***************************************************************************)
(* A model of korch: the History accumulator (a dict of lists with a mean  *)
(* aggregation) and the Keras-like Module (compile / fit / evaluate) built *)
(* on it.  Scalars logged by the steps are small positive integers; a mean *)
(* is the exact fraction sum/len, kept as a reduced pair <<num, den>>.     *)
(***************************************************************************)
EXTENDS Integers, Sequences, FiniteSets, TLC

\* ------------------------------------------------------------------ bounds
MaxCalls == 3       \* log_dict calls made on the standalone History
MaxEpochs == 2      \* fit is called with epochs in 0..MaxEpochs
MaxBatches == 2     \* a data source yields 0..MaxBatches batches

\* The scalars a step can report.
Values == {1, 3}

\* Metric names; "Loss" is the name the steps always report.
Names == {"Loss", "Accuracy", "Val_Loss"}
Prefixes == {"", "Val_"}

\* ----------------------------------------------------------------- helpers
\* The empty dict.
EmptyDict == [k \in {} |-> <<>>]

\* Outcomes of a call: a returned value or a raised error.
Return(v) == [kind |-> "return", value |-> v]
Raise(e) == [kind |-> "raise", error |-> e]
NoCall == [kind |-> "none"]

RECURSIVE Sum(_)
\* Python's sum(x) over a list.
Sum(s) == IF s = <<>> THEN 0 ELSE Head(s) + Sum(Tail(s))

RECURSIVE Gcd(_, _)
Gcd(a, b) == IF b = 0 THEN a ELSE Gcd(b, a % b)

\* True division a/b (b > 0) as an exact reduced fraction.
TrueDiv(a, b) == LET g == Gcd(a, b) IN <<a \div g, b \div g>>

\* ------------------------------------------------------------ History
\* A StepResult with the given names: one scalar per name.
StepResults(names) == [names -> Values]

\* The name sets a step result can carry.
NameSets == {{"Loss"}, {"Loss", "Accuracy"}}

\* The dicts handed to log_dict.
DataDicts == UNION {StepResults(ns) : ns \in NameSets}

\* log_dict with a seen key overwritten instead of appended to.
log_dict_overwrite(self, data, prefix) ==
    LET keys == {prefix \o n : n \in DOMAIN data}
        val(k) == data[CHOOSE n \in DOMAIN data : prefix \o n = k]
    IN [k \in (DOMAIN self) \cup keys |-> IF k \in keys THEN <<val(k)>> ELSE self[k]]

\* log_dict ignoring its prefix.
log_dict_noprefix(self, data, prefix) ==
    [k \in (DOMAIN self) \cup (DOMAIN data) |->
        IF k \in DOMAIN data
          THEN IF k \in DOMAIN self THEN Append(self[k], data[k]) ELSE <<data[k]>>
          ELSE self[k]]

\* History.log_dict(data, prefix): the History after the call.
log_dict(self, data, prefix) ==
    LET keys == {prefix \o n : n \in DOMAIN data}
        val(k) == data[CHOOSE n \in DOMAIN data : prefix \o n = k]
    IN [k \in (DOMAIN self) \cup keys |->
          IF k \in keys
            THEN IF k \in DOMAIN self THEN Append(self[k], val(k)) ELSE <<val(k)>>
            ELSE self[k]]

\* agg_fn with floor division, sum(x)//len(x).
agg_fn_floordiv(x) ==
    IF Len(x) = 0 THEN Raise("ZeroDivisionError")
    ELSE Return(<<Sum(x) \div Len(x), 1>>)

\* agg_fn defaulting to 0 on an empty list.
agg_fn_zero(x) ==
    IF Len(x) = 0 THEN Return(<<0, 1>>)
    ELSE Return(TrueDiv(Sum(x), Len(x)))

\* The default agg_fn, lambda x: sum(x)/len(x); 0/0 raises ZeroDivisionError.
agg_fn(x) ==
    IF Len(x) = 0 THEN Raise("ZeroDivisionError")
    ELSE Return(TrueDiv(Sum(x), Len(x)))

\* aggregate() taking the mean of nothing when the History has no key.
aggregate_fail_on_empty(self) ==
    IF self = EmptyDict \/ \E k \in DOMAIN self : Len(self[k]) = 0
      THEN Raise("ZeroDivisionError")
      ELSE Return([k \in DOMAIN self |-> TrueDiv(Sum(self[k]), Len(self[k]))])

\* History.aggregate(): the dict comprehension over self.items(); an error
\* raised by agg_fn for any key ends the whole comprehension.
aggregate(self) ==
    IF \E k \in DOMAIN self : agg_fn(self[k]).kind = "raise"
      THEN Raise("ZeroDivisionError")
      ELSE Return([k \in DOMAIN self |-> agg_fn(self[k]).value])

\* The History itself after aggregate(): the comprehension only reads it.
aggregate_self(self) == self

\* ------------------------------------------------------------- Module
\* An optional argument: None, or a value.
None == [none |-> TRUE]
Some(v) == [none |-> FALSE, val |-> v]

\* A data source yielding n batches; a batch is known by its position.
Loader(n) == [i \in 1..n |-> i]
Loaders == {Loader(n) : n \in 0..MaxBatches}

\* The names reported by the MetricCollection handed to compile.
MetricCollection == {"Accuracy"}

\* A MetricCollection the caller built with its own metric name, one that
\* begins like the keys of the validation stream.
PrefixedCollection == {"Val_Loss"}

\* The scalars the network, the loss and the metrics compute on one batch: a
\* low loss with a high accuracy, or the reverse.
Computed == {[k \in Names |-> IF k = "Loss" THEN v ELSE 4 - v] : v \in Values}

\* What the collaborators do in one step: whether the forward pass raises, and
\* the scalars computed.
Externals == [fails : BOOLEAN, r : Computed]

\* A step's outcome and whether optimizer.step() was reached.
StepOut(out, updated) == [out |-> out, updated |-> updated]

\* Restriction of a dict to some names.
Restrict(d, ns) == [k \in ns |-> d[k]]

\* The metrics dict built at the end of both default steps.
ObtainMetrics(cfg, ext) ==
    IF cfg.metrics = "unset" THEN Raise("AttributeError")
    ELSE IF cfg.metrics = "None" THEN Return(Restrict(ext.r, {"Loss"}))
    ELSE IF cfg.metrics = "prefixed"
      THEN Return(Restrict(ext.r, PrefixedCollection \cup {"Loss"}))
    ELSE Return(Restrict(ext.r, MetricCollection \cup {"Loss"}))

\* with torch.no_grad(): gradient tracking is off inside the block, and what it
\* was before the block is restored when the block is left.
no_grad_enter(prev) == FALSE
no_grad_exit(prev) == prev

\* train_step going on to backward() and optimizer.step() without a loss function.
default_train_step_no_loss_check(cfg, ext) ==
    IF cfg.optimizer \in {"unset", "None"}
      THEN StepOut(Raise("AttributeError"), FALSE)
    ELSE IF ext.fails
      THEN StepOut(Raise("CollaboratorError"), FALSE)
    ELSE StepOut(ObtainMetrics(cfg, ext), TRUE)

\* Module.train_step(batch), as defined by the library.
default_train_step(cfg, ext) ==
    IF cfg.optimizer \in {"unset", "None"}
      THEN StepOut(Raise("AttributeError"), FALSE)          \* self.optimizer.zero_grad()
    ELSE IF ext.fails
      THEN StepOut(Raise("CollaboratorError"), FALSE)       \* self(inputs)
    ELSE IF cfg.loss_fn = "unset"
      THEN StepOut(Raise("AttributeError"), FALSE)          \* self.loss_fn
    ELSE IF cfg.loss_fn = "None"
      THEN StepOut(Raise("TypeError"), FALSE)               \* None(outputs, labels)
    ELSE StepOut(ObtainMetrics(cfg, ext), TRUE)             \* backward, optimizer.step()

\* Module.validation_step(batch), as defined by the library.
default_validation_step(cfg, ext) ==
    IF ext.fails
      THEN StepOut(Raise("CollaboratorError"), FALSE)       \* self(inputs)
    ELSE IF cfg.loss_fn = "unset"
      THEN StepOut(Raise("AttributeError"), FALSE)
    ELSE IF cfg.loss_fn = "None"
      THEN StepOut(Raise("TypeError"), FALSE)
    ELSE StepOut(ObtainMetrics(cfg, ext), FALSE)

\* A step overridden by the user's subclass: it returns a StepResult or raises.
\* The overriding step modelled here computes its scalars from the batch alone
\* and reports "Accuracy" for every second batch only.
custom_step(batch, ext) ==
    IF ext.fails THEN StepOut(Raise("CollaboratorError"), FALSE)
    ELSE IF batch % 2 = 0
      THEN StepOut(Return([k \in {"Loss", "Accuracy"} |-> IF k = "Loss" THEN 3 ELSE 1]), FALSE)
    ELSE StepOut(Return([k \in {"Loss"} |-> 1]), FALSE)

\* self.train_step(batch) / self.validation_step(batch) as fit and evaluate call them.
train_step(cfg, batch, ext) ==
    IF cfg.custom THEN custom_step(batch, ext) ELSE default_train_step(cfg, ext)

validation_step(cfg, batch, ext) ==
    IF cfg.custom THEN custom_step(batch, ext) ELSE default_validation_step(cfg, ext)

\* self.metrics.reset() in fit.
metrics_reset(cfg) ==
    IF cfg.metrics \in {"unset", "None"} THEN Raise("AttributeError") ELSE Return(TRUE)

\* One pass of evaluate's loop body on batch i, given the step's result.
\* results is [bound |-> FALSE] until the first batch binds it.
evaluate_body(results, i, result) ==
    IF i = 0
      THEN Return([bound |-> TRUE, dict |-> [k \in DOMAIN result |-> <<result[k]>>]])
    ELSE IF \E name \in DOMAIN result : name \notin DOMAIN results.dict
      THEN Raise("KeyError")
    ELSE Return([bound |-> TRUE,
                 dict |-> [k \in DOMAIN results.dict |->
                             IF k \in DOMAIN result
                               THEN Append(results.dict[k], result[k])
                               ELSE results.dict[k]]])

\* The statement after evaluate's loop: the means of results, which is unbound
\* when the loop body never ran.
evaluate_end(results) ==
    IF ~results.bound THEN Raise("UnboundLocalError")
    ELSE IF \E k \in DOMAIN results.dict : Len(results.dict[k]) = 0
      THEN Raise("ZeroDivisionError")
    ELSE Return([k \in DOMAIN results.dict |->
                   TrueDiv(Sum(results.dict[k]), Len(results.dict[k]))])

\* --------------------------------------------------------------- state
VARIABLES
    hist,       \* a History used directly (History is a dict subclass)
    hist0,      \* the dict it was constructed from
    hlog,       \* the log_dict calls made on it, in call order: <<data, prefix>>
    agg,        \* outcome of the last aggregate() on it
    aggOf,      \* the History that aggregate() was called on
    lastop,     \* the last operation on hist: "new", "log_dict" or "aggregate"
    cfg,        \* the Module: loss_fn, optimizer, metrics, and whether its steps are overridden
    training,   \* nn.Module.training: TRUE after train(), FALSE after eval()
    grad_enabled, \* torch's gradient mode: FALSE inside a no_grad block
    pc,         \* where the running call is
    call,       \* "none", "fit" or "evaluate"
    args,       \* the running call's arguments
    epoch,      \* fit's loop variable
    batch_idx,  \* position in the data source being iterated
    history_epoch,
    history_batch,
    results,    \* evaluate's local
    outcome,    \* what the call returned or raised
    obs         \* observations of the running call (not program state)

hvars == <<hist, hist0, hlog, agg, aggOf, lastop>>
mvars == <<cfg, training, grad_enabled, pc, call, args, epoch, batch_idx,
           history_epoch, history_batch, results, outcome, obs>>
vars == <<hvars, mvars>>

\* Per-name running <<sum, count>> of the step results of one phase of one epoch.
Acc(a, r) ==
    [k \in (DOMAIN a) \cup (DOMAIN r) |->
        IF k \notin DOMAIN r THEN a[k]
        ELSE IF k \in DOMAIN a THEN <<a[k][1] + r[k], a[k][2] + 1>>
        ELSE <<r[k], 1>>]

Obs0 ==
    [train_calls |-> 0,      \* train_step invocations
     val_calls |-> 0,        \* validation_step invocations
     updates |-> 0,          \* optimizer.step() calls
     resets |-> 0,           \* metrics.reset() calls
     logged |-> 0,           \* log_dict calls on a batch-level or epoch-level History
     step_failed |-> FALSE,  \* a step of the call raised
     failed_at |-> [phase |-> "none", epoch |-> 0, batch |-> 0, error |-> "none"],
     tacc |-> EmptyDict,     \* this epoch's training step results
     vacc |-> EmptyDict,     \* this epoch's validation step results
     elog |-> <<>>,          \* per aggregated epoch: [train |-> tacc, val |-> vacc]
     ref |-> EmptyDict,      \* a fresh History fed every validation_step result of evaluate
     last_step |-> [kind |-> "none"],  \* the last step invoked, with the mode and
                                       \* the gradient mode it ran in
     vseq |-> <<>>,          \* this epoch's validation step results, by batch
     vupdates |-> 0,         \* optimizer.step() calls made before the last validation step
     after_fit |-> [is |-> FALSE],     \* what the fit that returned before this call left
     same |-> TRUE]          \* every step of this evaluate gave what fit's last epoch
                             \* got for the same batch

HistoryInit ==
    /\ hist = hist0
    /\ hlog = <<>>
    /\ agg = NoCall
    /\ aggOf = EmptyDict
    /\ lastop = "new"

ModuleInit ==
    /\ cfg \in [loss_fn : {"unset"}, optimizer : {"unset"}, metrics : {"unset"},
                custom : BOOLEAN]
    /\ training \in BOOLEAN
    /\ grad_enabled = TRUE
    /\ pc = "idle"
    /\ call = "none"
    /\ args = [epochs |-> 0, trainloader |-> <<>>, validationloader |-> None]
    /\ epoch = 0
    /\ batch_idx = 0
    /\ history_epoch = EmptyDict
    /\ history_batch = EmptyDict
    /\ results = [bound |-> FALSE]
    /\ outcome = NoCall
    /\ obs = Obs0

\* Dicts a History can be constructed from (dict's constructor is inherited):
\* the empty one, and ones holding an empty series.
InitialHistories ==
    {EmptyDict,
     [k \in {"Loss"} |-> <<>>],
     [k \in {"Loss", "Accuracy"} |-> IF k = "Loss" THEN <<1>> ELSE <<>>]}

InitHistory ==
    /\ hist0 \in InitialHistories
    /\ HistoryInit
    /\ ModuleInit
    /\ ~cfg.custom
    /\ training

Init ==
    /\ hist0 = EmptyDict
    /\ HistoryInit
    /\ ModuleInit

\* ------------------------------------------------- actions on a History
\* hist.log_dict(data, prefix)
LogDict(data, prefix) ==
    /\ Len(hlog) < MaxCalls
    /\ hist' = log_dict(hist, data, prefix)
    /\ hlog' = Append(hlog, <<data, prefix>>)
    /\ lastop' = "log_dict"
    /\ UNCHANGED <<hist0, agg, aggOf, mvars>>

\* hist.aggregate()
Aggregate ==
    /\ agg' = aggregate(hist)
    /\ aggOf' = hist
    /\ hist' = aggregate_self(hist)
    /\ lastop' = "aggregate"
    /\ UNCHANGED <<hist0, hlog, mvars>>

NextHistory ==
    \/ \E data \in DataDicts, prefix \in Prefixes : LogDict(data, prefix)
    \/ Aggregate

SpecHistory == InitHistory /\ [][NextHistory]_vars

\* ---------------------------------------------------- actions on a Module
\* compile(loss, optimizer, metrics): each argument is None or given.
compile(loss, optimizer, metrics) ==
    /\ pc = "idle"
    /\ cfg' = [cfg EXCEPT !.loss_fn = loss, !.optimizer = optimizer, !.metrics = metrics]
    /\ UNCHANGED <<hvars, training, grad_enabled, pc, call, args, epoch, batch_idx,
                   history_epoch, history_batch, results, outcome, obs>>

\* fit(trainloader, epochs, validationloader): history_epoch = History()
fit(trainloader, epochs, validationloader) ==
    /\ pc = "idle"
    /\ call' = "fit"
    /\ args' = [epochs |-> epochs, trainloader |-> trainloader,
                validationloader |-> validationloader]
    /\ history_epoch' = EmptyDict
    /\ epoch' = 0
    /\ pc' = "epoch_loop"
    /\ UNCHANGED <<hvars, cfg, grad_enabled, training, batch_idx, history_batch, results, outcome, obs>>

\* The epoch loop with history_batch created once, before the loop.
EpochStart_stale_history ==
    /\ pc = "epoch_loop"
    /\ epoch < args.epochs
    /\ training' = TRUE
    /\ batch_idx' = 0
    /\ pc' = "train"
    /\ obs' = [obs EXCEPT !.tacc = EmptyDict, !.vacc = EmptyDict, !.vseq = <<>>]
    /\ UNCHANGED <<hvars, cfg, grad_enabled, call, args, epoch, history_epoch, history_batch,
                   results, outcome>>

\* The epoch loop running once more than asked, range(epochs + 1).
EpochStart_one_more ==
    /\ pc = "epoch_loop"
    /\ epoch <= args.epochs
    /\ training' = TRUE
    /\ history_batch' = EmptyDict
    /\ batch_idx' = 0
    /\ pc' = "train"
    /\ obs' = [obs EXCEPT !.tacc = EmptyDict, !.vacc = EmptyDict, !.vseq = <<>>]
    /\ UNCHANGED <<hvars, cfg, grad_enabled, call, args, epoch, history_epoch, results, outcome>>

\* The epoch loop without self.train() at the start of an epoch.
EpochStart_no_train ==
    /\ pc = "epoch_loop"
    /\ epoch < args.epochs
    /\ history_batch' = EmptyDict
    /\ batch_idx' = 0
    /\ pc' = "train"
    /\ obs' = [obs EXCEPT !.tacc = EmptyDict, !.vacc = EmptyDict, !.vseq = <<>>]
    /\ UNCHANGED <<hvars, cfg, grad_enabled, training, call, args, epoch, history_epoch,
                   results, outcome>>

\* for epoch in range(epochs): self.train(); history_batch = History()
EpochStart ==
    /\ pc = "epoch_loop"
    /\ epoch < args.epochs
    /\ training' = TRUE
    /\ history_batch' = EmptyDict
    /\ batch_idx' = 0
    /\ pc' = "train"
    /\ obs' = [obs EXCEPT !.tacc = EmptyDict, !.vacc = EmptyDict, !.vseq = <<>>]
    /\ UNCHANGED <<hvars, cfg, grad_enabled, call, args, epoch, history_epoch, results, outcome>>

\* The training loop with a failing step caught and its batch skipped.
TrainBatch_swallow(ext) ==
    /\ pc = "train"
    /\ batch_idx < Len(args.trainloader)
    /\ LET s == train_step(cfg, args.trainloader[batch_idx + 1], ext)
           o == [obs EXCEPT !.train_calls = @ + 1,
                            !.updates = IF s.updated THEN @ + 1 ELSE @,
                            !.last_step = [kind |-> "train_step", training |-> training,
                                           grad |-> grad_enabled]]
       IN IF s.out.kind = "raise"
            THEN /\ obs' = [o EXCEPT !.step_failed = TRUE,
                                      !.failed_at = [phase |-> "train", epoch |-> epoch,
                                                     batch |-> batch_idx,
                                                     error |-> s.out.error]]
                 /\ UNCHANGED history_batch
            ELSE /\ history_batch' = log_dict(history_batch, s.out.value, "")
                 /\ obs' = [o EXCEPT !.logged = @ + 1, !.tacc = Acc(@, s.out.value)]
    /\ batch_idx' = batch_idx + 1
    /\ UNCHANGED <<hvars, cfg, grad_enabled, training, call, args, epoch, history_epoch, results,
                   pc, outcome>>

\* One pass of the training loop: train_step, then log_dict with no prefix.
TrainBatch(ext) ==
    /\ pc = "train"
    /\ batch_idx < Len(args.trainloader)
    /\ LET s == train_step(cfg, args.trainloader[batch_idx + 1], ext)
           o == [obs EXCEPT !.train_calls = @ + 1,
                            !.updates = IF s.updated THEN @ + 1 ELSE @,
                            !.last_step = [kind |-> "train_step", training |-> training,
                                           grad |-> grad_enabled]]
       IN IF s.out.kind = "raise"
            THEN /\ pc' = "failed"
                 /\ outcome' = s.out
                 /\ obs' = [o EXCEPT !.step_failed = TRUE,
                                      !.failed_at = [phase |-> "train", epoch |-> epoch,
                                                     batch |-> batch_idx,
                                                     error |-> s.out.error]]
                 /\ UNCHANGED <<history_batch, batch_idx>>
            ELSE /\ history_batch' = log_dict(history_batch, s.out.value, "")
                 /\ batch_idx' = batch_idx + 1
                 /\ obs' = [o EXCEPT !.logged = @ + 1, !.tacc = Acc(@, s.out.value)]
                 /\ UNCHANGED <<pc, outcome>>
    /\ UNCHANGED <<hvars, cfg, grad_enabled, training, call, args, epoch, history_epoch, results>>

\* fit resetting the metric collection right after the training loop, before
\* the validation batches.
TrainDone_reset_first ==
    /\ pc = "train"
    /\ batch_idx = Len(args.trainloader)
    /\ IF args.validationloader # None
         THEN /\ training' = FALSE
              /\ batch_idx' = 0
              /\ pc' = "validate"
         ELSE /\ pc' = "reset"
              /\ UNCHANGED <<training, batch_idx>>
    /\ obs' = [obs EXCEPT !.resets = @ + 1]
    /\ UNCHANGED <<hvars, cfg, grad_enabled, call, args, epoch, history_epoch, history_batch,
                   results, outcome>>

\* The training loop is exhausted: if validationloader is not None: self.eval()
TrainDone ==
    /\ pc = "train"
    /\ batch_idx = Len(args.trainloader)
    /\ IF args.validationloader # None
         THEN /\ training' = FALSE
              /\ batch_idx' = 0
              /\ pc' = "validate"
         ELSE /\ pc' = "reset"
              /\ UNCHANGED <<training, batch_idx>>
    /\ UNCHANGED <<hvars, cfg, grad_enabled, call, args, epoch, history_epoch, history_batch,
                   results, outcome, obs>>

\* One pass of the validation loop: validation_step under no_grad, then
\* log_dict with prefix 'Val_'.
ValidationBatch(ext) ==
    /\ pc = "validate"
    /\ batch_idx < Len(args.validationloader.val)
    /\ LET g == no_grad_enter(grad_enabled)
           s == validation_step(cfg, args.validationloader.val[batch_idx + 1], ext)
           o == [obs EXCEPT !.val_calls = @ + 1,
                            !.vupdates = obs.updates,
                            !.last_step = [kind |-> "validation_step",
                                           training |-> training, grad |-> g]]
       IN IF s.out.kind = "raise"
            THEN /\ pc' = "failed"
                 /\ outcome' = s.out
                 /\ obs' = [o EXCEPT !.step_failed = TRUE,
                                      !.failed_at = [phase |-> "validate", epoch |-> epoch,
                                                     batch |-> batch_idx,
                                                     error |-> s.out.error]]
                 /\ UNCHANGED <<history_batch, batch_idx>>
            ELSE /\ history_batch' = log_dict(history_batch, s.out.value, "Val_")
                 /\ batch_idx' = batch_idx + 1
                 /\ obs' = [o EXCEPT !.logged = @ + 1, !.vacc = Acc(@, s.out.value),
                                      !.vseq = Append(@, s.out.value)]
                 /\ UNCHANGED <<pc, outcome>>
    /\ grad_enabled' = no_grad_exit(grad_enabled)
    /\ UNCHANGED <<hvars, cfg, training, call, args, epoch, history_epoch, results>>

\* The validation loop is exhausted.
ValidationDone ==
    /\ pc = "validate"
    /\ batch_idx = Len(args.validationloader.val)
    /\ pc' = "reset"
    /\ UNCHANGED <<hvars, cfg, grad_enabled, training, call, args, epoch, batch_idx,
                   history_epoch, history_batch, results, outcome, obs>>

\* self.metrics.reset()
MetricsReset ==
    /\ pc = "reset"
    /\ LET r == metrics_reset(cfg)
       IN IF r.kind = "raise"
            THEN /\ pc' = "failed"
                 /\ outcome' = r
                 /\ UNCHANGED obs
            ELSE /\ pc' = "aggregate"
                 /\ obs' = [obs EXCEPT !.resets = @ + 1]
                 /\ UNCHANGED outcome
    /\ UNCHANGED <<hvars, cfg, grad_enabled, training, call, args, epoch, batch_idx,
                   history_epoch, history_batch, results>>

\* history_epoch.log_dict(history_batch.aggregate())
EpochAggregate ==
    /\ pc = "aggregate"
    /\ LET r == aggregate(history_batch)
       IN IF r.kind = "raise"
            THEN /\ pc' = "failed"
                 /\ outcome' = r
                 /\ UNCHANGED <<history_epoch, epoch, obs>>
            ELSE /\ history_epoch' = log_dict(history_epoch, r.value, "")
                 /\ epoch' = epoch + 1
                 /\ pc' = "epoch_loop"
                 /\ obs' = [obs EXCEPT !.logged = @ + 1,
                                       !.elog = Append(@, [train |-> obs.tacc,
                                                           val |-> obs.vacc])]
                 /\ UNCHANGED outcome
    /\ history_batch' = aggregate_self(history_batch)
    /\ UNCHANGED <<hvars, cfg, grad_enabled, training, call, args, batch_idx, results>>

\* fit putting the model back in training mode before it returns.
FitReturn_train_mode ==
    /\ pc = "epoch_loop"
    /\ epoch = args.epochs
    /\ pc' = "returned"
    /\ outcome' = Return(history_epoch)
    /\ training' = TRUE
    /\ UNCHANGED <<hvars, cfg, grad_enabled, call, args, epoch, batch_idx,
                   history_epoch, history_batch, results, obs>>

\* range(epochs) is exhausted: return history_epoch
FitReturn ==
    /\ pc = "epoch_loop"
    /\ epoch = args.epochs
    /\ pc' = "returned"
    /\ outcome' = Return(history_epoch)
    /\ UNCHANGED <<hvars, cfg, grad_enabled, training, call, args, epoch, batch_idx,
                   history_epoch, history_batch, results, obs>>

\* The last entry of every series of a history.
LastEntries(h) == [k \in DOMAIN h |-> h[k][Len(h[k])]]

\* evaluate(dataloader): self.eval().  It is called on a Module no call was made
\* on yet, or, as in the usage example, on the validation source of a fit that
\* has just returned; the locals of that fit are gone.
evaluate(dataloader) ==
    /\ \/ pc = "idle"
       \/ /\ pc = "returned"
          /\ call = "fit"
          /\ args.validationloader = Some(dataloader)
    /\ call' = "evaluate"
    /\ args' = [dataloader |-> dataloader]
    /\ training' = FALSE
    /\ batch_idx' = 0
    /\ results' = [bound |-> FALSE]
    /\ pc' = "evaluate"
    /\ epoch' = 0
    /\ history_epoch' = EmptyDict
    /\ history_batch' = EmptyDict
    /\ outcome' = NoCall
    /\ obs' = [Obs0 EXCEPT !.after_fit =
                   IF pc = "returned"
                     THEN [is |-> TRUE, epochs |-> args.epochs,
                           last |-> LastEntries(outcome.value),
                           vseq |-> obs.vseq, vupdates |-> obs.vupdates,
                           updates |-> obs.updates]
                     ELSE [is |-> FALSE]]
    /\ UNCHANGED <<hvars, cfg, grad_enabled>>

\* One pass of evaluate's loop: validation_step, then the result is stored.
EvaluateBatch(ext) ==
    /\ pc = "evaluate"
    /\ batch_idx < Len(args.dataloader)
    /\ LET s == validation_step(cfg, args.dataloader[batch_idx + 1], ext)
           o == [obs EXCEPT !.val_calls = @ + 1,
                            !.last_step = [kind |-> "validation_step",
                                           training |-> training, grad |-> grad_enabled],
                            !.same = /\ @
                                     /\ (/\ obs.after_fit.is
                                         /\ batch_idx < Len(obs.after_fit.vseq))
                                          => s.out = Return(obs.after_fit.vseq[batch_idx + 1])]
       IN IF s.out.kind = "raise"
            THEN /\ pc' = "failed"
                 /\ outcome' = s.out
                 /\ obs' = [o EXCEPT !.step_failed = TRUE,
                                      !.failed_at = [phase |-> "evaluate", epoch |-> 0,
                                                     batch |-> batch_idx,
                                                     error |-> s.out.error]]
                 /\ UNCHANGED <<results, batch_idx>>
            ELSE LET b == evaluate_body(results, batch_idx, s.out.value)
                     oo == [o EXCEPT !.ref = log_dict(@, s.out.value, "")]
                 IN IF b.kind = "raise"
                      THEN /\ pc' = "failed"
                           /\ outcome' = b
                           /\ obs' = oo
                           /\ UNCHANGED <<results, batch_idx>>
                      ELSE /\ results' = b.value
                           /\ batch_idx' = batch_idx + 1
                           /\ obs' = oo
                           /\ UNCHANGED <<pc, outcome>>
    /\ UNCHANGED <<hvars, cfg, grad_enabled, training, call, args, epoch, history_epoch, history_batch>>

\* The loop is exhausted: results = {name: sum(values)/len(values) ...}; return results
EvaluateReturn ==
    /\ pc = "evaluate"
    /\ batch_idx = Len(args.dataloader)
    /\ LET r == evaluate_end(results)
       IN /\ outcome' = r
          /\ pc' = IF r.kind = "raise" THEN "failed" ELSE "returned"
    /\ UNCHANGED <<hvars, cfg, grad_enabled, training, call, args, epoch, batch_idx,
                   history_epoch, history_batch, results, obs>>

Next ==
    \/ \E l \in {"None", "set"}, o \in {"None", "set"}, m \in {"None", "set", "prefixed"} :
          compile(l, o, m)
    \/ \E tl \in Loaders, e \in 0..MaxEpochs, vl \in {None} \cup {Some(l) : l \in Loaders} :
          fit(tl, e, vl)
    \/ EpochStart
    \/ \E ext \in Externals : TrainBatch(ext)
    \/ TrainDone
    \/ \E ext \in Externals : ValidationBatch(ext)
    \/ ValidationDone
    \/ MetricsReset
    \/ EpochAggregate
    \/ FitReturn
    \/ \E dl \in Loaders : evaluate(dl)
    \/ \E ext \in Externals : EvaluateBatch(ext)
    \/ EvaluateReturn

Spec == Init /\ [][Next]_vars

\* ------------------------------------------------------------- properties
\* Every key log_dict can produce from the modelled names and prefixes.
AllKeys == {p \o n : p \in Prefixes, n \in Names}

RECURSIVE EntriesOf(_, _)
\* The values, in call order, of the entries of log whose prefix+name is k.
EntriesOf(k, log) ==
    IF log = <<>> THEN <<>>
    ELSE LET data == Head(log)[1]
             prefix == Head(log)[2]
             hit == {n \in DOMAIN data : prefix \o n = k}
         IN (IF hit = {} THEN <<>> ELSE <<data[CHOOSE n \in hit : TRUE]>>)
              \o EntriesOf(k, Tail(log))

\* C1: after any sequence of log_dict calls on an initially empty History, the
\* series under every key is exactly the values, in call order, of the entries
\* whose prefix+name is that key; keys no entry names are absent.
C1_LogDictSeries ==
    hist0 = EmptyDict =>
        /\ DOMAIN hist \subseteq AllKeys
        /\ \A k \in AllKeys :
             /\ k \in DOMAIN hist <=> EntriesOf(k, hlog) # <<>>
             /\ k \in DOMAIN hist => hist[k] = EntriesOf(k, hlog)

\* Loss logged twice with no prefix and once with "Val_": two independent keys.
C1_Witness ==
    /\ hist0 = EmptyDict
    /\ Len(hlog) = 3
    /\ DOMAIN hist = {"Loss", "Val_Loss"}
    /\ hist["Loss"] = <<1, 3>>
    /\ hist["Val_Loss"] = <<3>>

\* No series of the History is empty.
NoEmptySeries(h) == \A k \in DOMAIN h : Len(h[k]) > 0

\* C2: aggregate() with the default agg_fn on a History without empty series
\* returns a dict with exactly the History's keys, each mapped to the sum of its
\* series divided by its length (Loss 1 then 3 gives 2), and the History is the
\* same after the call.
C2_AggregateMean ==
    /\ (agg.kind # "none" /\ NoEmptySeries(aggOf)) =>
         /\ agg.kind = "return"
         /\ DOMAIN agg.value = DOMAIN aggOf
         /\ \A k \in DOMAIN aggOf :
              /\ agg.value[k][2] > 0
              /\ agg.value[k][1] * Len(aggOf[k]) = Sum(aggOf[k]) * agg.value[k][2]
         /\ aggOf = [k \in {"Loss"} |-> <<1, 3>>] => agg.value["Loss"] = <<2, 1>>
    /\ lastop = "aggregate" => hist = aggOf

\* Loss 1 then 3, and Val_Loss 3: the means are 2 and 3.
C2_Witness ==
    /\ lastop = "aggregate"
    /\ aggOf = [k \in {"Loss", "Val_Loss"} |-> IF k = "Loss" THEN <<1, 3>> ELSE <<3>>]
    /\ agg = Return([k \in {"Loss", "Val_Loss"} |-> IF k = "Loss" THEN <<2, 1>> ELSE <<3, 1>>])

\* C8: aggregate() with the default agg_fn on a History holding an empty series
\* raises; it returns no dict at all, neither a value for that key nor the
\* means of the other keys.
C8_EmptySeriesRaises ==
    (agg.kind # "none" /\ ~NoEmptySeries(aggOf)) =>
        /\ agg = Raise("ZeroDivisionError")
        /\ lastop = "aggregate" => hist = aggOf

\* One key holds samples, another is empty: the call raises.
C8_Witness ==
    /\ agg.kind = "raise"
    /\ lastop = "aggregate"
    /\ "Loss" \in DOMAIN aggOf /\ Len(aggOf["Loss"]) > 0
    /\ "Accuracy" \in DOMAIN aggOf /\ aggOf["Accuracy"] = <<>>

\* The running fit call's arguments.
E == args.epochs
NTrain == Len(args.trainloader)
NVal == IF args.validationloader = None THEN 0 ELSE Len(args.validationloader.val)
FitReturned == call = "fit" /\ pc = "returned"

\* Every training step of every aggregated epoch reported the same names.
UniformTrain ==
    \A e \in 1..Len(obs.elog) :
        /\ DOMAIN obs.elog[e].train = DOMAIN obs.elog[1].train
        /\ \A k \in DOMAIN obs.elog[e].train : obs.elog[e].train[k][2] = NTrain

Reported ==
    UNION {(DOMAIN obs.elog[e].train) \cup (DOMAIN obs.elog[e].val) : e \in 1..Len(obs.elog)}

\* C4 as stated: with a validation source and epochs >= 1, the returned history
\* has, for every name m reported by the steps, both m and "Val_"+m, each with
\* one entry per epoch.
C4_Original ==
    (FitReturned /\ args.validationloader # None /\ E >= 1) =>
        \A m \in Reported :
            /\ m \in DOMAIN outcome.value
            /\ ("Val_" \o m) \in DOMAIN outcome.value
            /\ Len(outcome.value[m]) = E
            /\ Len(outcome.value["Val_" \o m]) = E

\* C4, amended: with a validation source and epochs >= 1, the returned history
\* has the key m, with one entry per epoch, for every name m that a training
\* step reported in every epoch, and the key "Val_"+m, with one entry per epoch,
\* for every name m that a validation step reported in every epoch.
C4_ValidationKeys ==
    (FitReturned /\ args.validationloader # None /\ E >= 1) =>
        /\ Len(obs.elog) = E
        /\ \A m \in Names :
             /\ (\A e \in 1..E : m \in DOMAIN obs.elog[e].train) =>
                  /\ m \in DOMAIN outcome.value
                  /\ Len(outcome.value[m]) = E
             /\ (\A e \in 1..E : m \in DOMAIN obs.elog[e].val) =>
                  /\ ("Val_" \o m) \in DOMAIN outcome.value
                  /\ Len(outcome.value["Val_" \o m]) = E

C4_Witness ==
    /\ FitReturned
    /\ args.validationloader # None
    /\ E = 2 /\ NTrain = 2 /\ NVal = 2
    /\ DOMAIN outcome.value = {"Loss", "Accuracy", "Val_Loss", "Val_Accuracy"}
    /\ \A k \in DOMAIN outcome.value : Len(outcome.value[k]) = 2

\* C5: evaluate ends as a fresh History fed every validation_step result with
\* no prefix and then aggregated would: in the failure of a step if one raised,
\* and otherwise returning the means.
C5_EvaluateAsHistory ==
    (call = "evaluate" /\ pc \in {"returned", "failed"}) =>
        IF obs.step_failed THEN outcome = Raise(obs.failed_at.error)
        ELSE outcome = aggregate(obs.ref)

\* C6: fit with epochs = 0 invokes no step, consumes no batch, cannot fail, and
\* returns an empty history.
C6_ZeroEpochs ==
    (call = "fit" /\ E = 0) =>
        /\ pc \in {"epoch_loop", "returned"}
        /\ pc = "epoch_loop" => ENABLED FitReturn
        /\ pc = "returned" => outcome = Return(EmptyDict)
        /\ obs = Obs0
        /\ batch_idx = 0
        /\ history_epoch = EmptyDict

\* epochs = 0 on a Module never compiled, with both sources non-empty.
C6_Witness ==
    /\ FitReturned
    /\ E = 0 /\ NTrain = 2 /\ NVal = 2
    /\ cfg.optimizer = "unset"
    /\ outcome = Return(EmptyDict)

\* C7 as stated: fit running an epoch over a training source of zero batches
\* does not return a history.
C7_Original ==
    (call = "fit" /\ E >= 1 /\ NTrain = 0) => pc # "returned"

\* The names reported by a validation step of an aggregated epoch.
ReportedVal == UNION {DOMAIN obs.elog[e].val : e \in 1..Len(obs.elog)}

\* C7, amended: in a fit over a training source of zero batches no series is
\* ever empty, so the epoch-level aggregation never ends in the empty-series
\* failure; a history that fit returns has no key of the training stream, only
\* the "Val_"-prefixed names of the validation steps.
C7_EmptyTrainingSource ==
    (call = "fit" /\ E >= 1 /\ NTrain = 0) =>
        /\ obs.train_calls = 0
        /\ NoEmptySeries(history_batch)
        /\ outcome # Raise("ZeroDivisionError")
        /\ pc = "returned" =>
             /\ outcome.kind = "return"
             /\ DOMAIN outcome.value = {"Val_" \o m : m \in ReportedVal}

\* Two epochs over no training batch and no validation source: an empty history.
C7_Witness ==
    /\ FitReturned
    /\ E = 2 /\ NTrain = 0
    /\ args.validationloader = None
    /\ obs.resets = 2
    /\ outcome = Return(EmptyDict)

\* What C9 says of a state: once a step has raised, the call has ended in that
\* failure with no result, the failing step is the last one invoked, and every
\* earlier batch was stepped once.
C9_State ==
    obs.step_failed =>
        /\ pc = "failed"
        /\ outcome = Raise(obs.failed_at.error)
        /\ obs.failed_at.phase = "train" =>
             /\ call = "fit"
             /\ Len(obs.elog) = epoch
             /\ obs.train_calls = obs.failed_at.epoch * NTrain + obs.failed_at.batch + 1
             /\ obs.val_calls = obs.failed_at.epoch * NVal
        /\ obs.failed_at.phase = "validate" =>
             /\ call = "fit"
             /\ Len(obs.elog) = epoch
             /\ obs.train_calls = (obs.failed_at.epoch + 1) * NTrain
             /\ obs.val_calls = obs.failed_at.epoch * NVal + obs.failed_at.batch + 1
        /\ obs.failed_at.phase = "evaluate" =>
             /\ call = "evaluate"
             /\ obs.train_calls = 0
             /\ obs.val_calls = obs.failed_at.batch + 1
        /\ obs.failed_at.epoch = epoch
        /\ obs.failed_at.batch = batch_idx

\* C9: a failure raised by a step during fit or evaluate is neither caught nor
\* retried: the step was invoked once, the call ends in that failure without a
\* result, and nothing of the call runs afterwards.
C9_StepFailureAborts ==
    /\ []C9_State
    /\ [][pc = "failed" => UNCHANGED mvars]_vars

\* A validation step raises in the second epoch, after a completed first one.
C9_Witness ==
    /\ obs.step_failed
    /\ call = "fit"
    /\ obs.failed_at.phase = "validate"
    /\ obs.failed_at.epoch = 1
    /\ obs.failed_at.batch = 1
    /\ history_epoch # EmptyDict
    /\ outcome = Raise("CollaboratorError")

\* The loss function or the optimizer is absent.
MissingComponent ==
    cfg.loss_fn \in {"unset", "None"} \/ cfg.optimizer \in {"unset", "None"}

\* C10: with the loss function or the optimizer absent, fit over a non-empty
\* training source fails at its first train_step invocation: no optimizer
\* update was applied, nothing was logged, no other batch was processed.
C10_MissingComponent ==
    (call = "fit" /\ ~cfg.custom /\ MissingComponent /\ E >= 1 /\ NTrain >= 1) =>
        /\ pc \in {"epoch_loop", "train", "failed"}
        /\ obs.updates = 0
        /\ obs.logged = 0
        /\ obs.val_calls = 0
        /\ history_batch = EmptyDict
        /\ history_epoch = EmptyDict
        /\ epoch = 0 /\ batch_idx = 0
        /\ pc = "train" => ~ENABLED TrainDone
        /\ pc = "failed" <=> obs.train_calls = 1
        /\ pc # "failed" => obs.train_calls = 0
        /\ pc = "failed" =>
             /\ obs.step_failed
             /\ obs.failed_at.phase = "train"
             /\ outcome.kind = "raise"
             /\ outcome.error \in {"AttributeError", "TypeError", "CollaboratorError"}

\* compile was given an optimizer but no loss: zero_grad and the forward pass
\* run, calling the loss raises, optimizer.step() is not reached.
C10_Witness ==
    /\ call = "fit"
    /\ pc = "failed"
    /\ ~cfg.custom
    /\ cfg.optimizer = "set"
    /\ cfg.loss_fn = "None"
    /\ outcome = Raise("TypeError")
    /\ obs.updates = 0

\* What the fit that returned before the running evaluate left behind.
AfterFit == obs.after_fit

\* C11: when fit with epochs >= 1 and a validation source V has returned and
\* evaluate(V) is called next on the same batches, every step giving what it
\* gave for that batch in fit's last validation phase, evaluate returns, for
\* every metric m, exactly the last entry of the "Val_"+m series of the history
\* fit returned; no parameter update lies between that validation phase and
\* the end of evaluate.
C11_EvaluateAfterFit ==
    (/\ call = "evaluate"
     /\ AfterFit.is
     /\ AfterFit.epochs >= 1
     /\ pc \in {"returned", "failed"}
     /\ obs.same) =>
            /\ AfterFit.vupdates = AfterFit.updates
            /\ obs.updates = 0
            /\ outcome.kind = "return"
            /\ \A m \in DOMAIN outcome.value :
                 /\ ("Val_" \o m) \in DOMAIN AfterFit.last
                 /\ outcome.value[m] = AfterFit.last["Val_" \o m]
            /\ \A m \in Names :
                 ("Val_" \o m) \in DOMAIN AfterFit.last => m \in DOMAIN outcome.value

\* What C12 says of a state of fit: where the call is tells how many steps,
\* resets and epoch aggregates have happened.
C12_State ==
    call = "fit" =>
        /\ pc = "train" =>
             /\ obs.train_calls = epoch * NTrain + batch_idx
             /\ obs.val_calls = epoch * NVal
             /\ obs.resets = epoch
             /\ Len(obs.elog) = epoch
        /\ pc = "validate" =>
             /\ args.validationloader # None
             /\ obs.train_calls = (epoch + 1) * NTrain
             /\ obs.val_calls = epoch * NVal + batch_idx
             /\ obs.resets = epoch
             /\ Len(obs.elog) = epoch
        /\ pc = "reset" =>
             /\ obs.train_calls = (epoch + 1) * NTrain
             /\ obs.val_calls = (epoch + 1) * NVal
             /\ obs.resets = epoch
             /\ Len(obs.elog) = epoch
        /\ pc = "aggregate" =>
             /\ obs.train_calls = (epoch + 1) * NTrain
             /\ obs.val_calls = (epoch + 1) * NVal
             /\ obs.resets = epoch + 1
             /\ Len(obs.elog) = epoch
        /\ pc \in {"epoch_loop", "returned"} =>
             /\ obs.train_calls = epoch * NTrain
             /\ obs.val_calls = epoch * NVal
             /\ obs.resets = epoch
             /\ Len(obs.elog) = epoch
        /\ pc = "returned" => (epoch = E /\ obs.resets = E)

\* The phase changes fit can make.
C12_Step ==
    (call = "fit" /\ call' = "fit" /\ pc' # pc) =>
        \/ pc = "epoch_loop" /\ pc' \in {"train", "returned"}
        \/ pc = "train" /\ pc' = "validate" /\ args.validationloader # None
        \/ pc = "train" /\ pc' = "reset" /\ args.validationloader = None
        \/ pc = "validate" /\ pc' = "reset"
        \/ pc = "reset" /\ pc' = "aggregate"
        \/ pc = "aggregate" /\ pc' = "epoch_loop" /\ epoch' = epoch + 1
        \/ pc \in {"train", "validate", "reset", "aggregate"} /\ pc' = "failed"

\* C12: within every epoch of fit the phases come in the order training
\* batches, validation batches (only with a validation source), metric reset,
\* epoch aggregate; the next epoch starts only after the aggregate was logged;
\* reset() is invoked once per epoch, epochs times in a fit that returns, and
\* never between the training and the validation batches of an epoch.
C12_PhaseOrder ==
    /\ []C12_State
    /\ [][C12_Step]_vars

\* Two epochs of two training and two validation batches each, returned.
C12_Witness ==
    /\ FitReturned
    /\ E = 2 /\ NTrain = 2 /\ NVal = 2
    /\ obs.train_calls = 4
    /\ obs.val_calls = 4
    /\ obs.resets = 2
    /\ Len(obs.elog) = 2

\* C13: during fit every train_step runs in training mode with gradient
\* tracking on, and every validation_step runs in evaluation mode inside a
\* no_grad block, in every epoch: training mode is set again before the first
\* training batch of each epoch, and the no_grad block is left after each
\* validation step.
C13_StepModes ==
    call = "fit" =>
        /\ obs.last_step.kind = "train_step" =>
             (obs.last_step.training /\ obs.last_step.grad)
        /\ obs.last_step.kind = "validation_step" =>
             (~obs.last_step.training /\ ~obs.last_step.grad)
        /\ pc = "train" => training
        /\ pc = "validate" => ~training
        /\ grad_enabled

\* The first training step of the second epoch, after a validation phase.
C13_Witness ==
    /\ call = "fit"
    /\ pc = "train"
    /\ epoch = 1
    /\ batch_idx = 1
    /\ NVal = 2
    /\ obs.val_calls = 2
    /\ obs.last_step = [kind |-> "train_step", training |-> TRUE, grad |-> TRUE]

\* C14: in fit, training and validation metrics recorded in the same
\* batch-level history never share a key, whatever the metric names: the
\* series under a name logged by the training phase holds this epoch's training
\* step values only, and the series under "Val_"+name logged by the validation
\* phase holds this epoch's validation step values only.
C14_NoKeyCollision ==
    call = "fit" =>
        /\ \A m \in DOMAIN obs.tacc :
             /\ m \in DOMAIN history_batch
             /\ Len(history_batch[m]) = obs.tacc[m][2]
             /\ Sum(history_batch[m]) = obs.tacc[m][1]
        /\ \A m \in DOMAIN obs.vacc :
             /\ ("Val_" \o m) \in DOMAIN history_batch
             /\ Len(history_batch["Val_" \o m]) = obs.vacc[m][2]
             /\ Sum(history_batch["Val_" \o m]) = obs.vacc[m][1]

\* compile was given a loss and an optimizer, and the steps are the library's.
CompiledLossOptimizer ==
    ~cfg.custom /\ cfg.loss_fn = "set" /\ cfg.optimizer = "set"

\* C15: the metrics collection is optional: fit on a Module compiled with a
\* loss and an optimizer and metrics = None, with epochs >= 1 and a non-empty
\* training source, is stopped by nothing but a raising step, and returns a
\* history whose keys are "Loss", plus "Val_Loss" with a validation source,
\* with one entry per epoch.
C15_MetricsOptional ==
    (/\ call = "fit"
     /\ CompiledLossOptimizer
     /\ cfg.metrics = "None"
     /\ E >= 1
     /\ NTrain >= 1) =>
        /\ pc = "failed" => obs.step_failed
        /\ pc = "returned" =>
             /\ outcome.kind = "return"
             /\ DOMAIN outcome.value =
                  {"Loss"} \cup (IF args.validationloader # None THEN {"Val_Loss"} ELSE {})
             /\ \A k \in DOMAIN outcome.value : Len(outcome.value[k]) = E

\* C16: with finite sources, a finite epoch count and steps that return, fit
\* runs to completion strictly sequentially: nothing but a raising step stops
\* it, every step result is logged once before the next step is invoked, and at
\* the return train_step was invoked epochs x (training batches) times,
\* validation_step epochs x (validation batches) times, each batch of a source
\* once per epoch in the source's order, and the epoch-level history is returned.
C16_RunsToCompletion ==
    (call = "fit" /\ cfg.loss_fn = "set" /\ cfg.optimizer = "set" /\ ~obs.step_failed) =>
        /\ pc # "failed"
        /\ obs.logged = obs.train_calls + obs.val_calls + Len(obs.elog)
        /\ pc = "train" => obs.train_calls = epoch * NTrain + batch_idx
        /\ pc = "validate" => obs.val_calls = epoch * NVal + batch_idx
        /\ pc = "returned" =>
             /\ obs.train_calls = E * NTrain
             /\ obs.val_calls = E * NVal
             /\ outcome = Return(history_epoch)

\* The mode a returned call leaves the model in.
C17_State ==
    /\ (FitReturned /\ E >= 1) => (training <=> args.validationloader = None)
    /\ (call = "evaluate" /\ pc \in {"evaluate", "returned"}) => ~training

\* A fit with epochs = 0 never changes the mode.
C17_Step ==
    (call' = "fit" /\ args'.epochs = 0) => training' = training

\* C17: the mode is not restored: after fit returns with epochs >= 1 the model
\* is in evaluation mode if a validation source was supplied and in training
\* mode otherwise, after fit with epochs = 0 the mode is what it was, and after
\* evaluate returns the model is in evaluation mode whatever it was before.
C17_ModeAfterCall ==
    /\ []C17_State
    /\ [][C17_Step]_vars

\* A fit with a validation source has returned and left the model in
\* evaluation mode.
C17_Witness ==
    /\ FitReturned
    /\ E = 2 /\ NTrain = 1 /\ NVal = 1
    /\ ~training

====
